---------------------------- MODULE Spec2Model ----------------------------
(***************************************************************************)
(* Two local HTTP servers of the repository:                               *)
(*   serve.py           the API facade server (ContentArchitectHandler)    *)
(*   start-frontend.py  the static asset server (ProductXHandler)          *)
(* Both run socketserver.TCPServer.serve_forever: one accept loop, one     *)
(* request handled at a time.                                              *)
(*                                                                         *)
(* Text is a sequence of Unicode code points; bytes are 0..255.            *)
(* Assumptions of the model: the client keeps its connection open until    *)
(* the handler has returned, and standard output uses a strict UTF-8       *)
(* encoder (print of a lone surrogate raises UnicodeEncodeError).          *)
(***************************************************************************)
EXTENDS Integers, Sequences, FiniteSets, TLC

(***************************************************************************)
(* Bounds of the model.                                                    *)
(***************************************************************************)
MaxKeyPoints == 2   \* longest keyPoints array that is enumerated
MaxRequests == 3    \* connections one behaviour of the facade server sees
MaxBacklog == 2     \* connections waiting in the listen queue at once

(***************************************************************************)
(* String literals of serve.py, as code points.                            *)
(***************************************************************************)
\* serve.py:74: 'Introduction'
IntroTitle ==
  <<73, 110, 116, 114, 111, 100, 117, 99, 116, 105, 111, 110>>

\* serve.py:75, literal piece 1: 'Welcome to this comprehensive guide on '
IntroText1 ==
  <<87, 101, 108, 99, 111, 109, 101, 32, 116, 111, 32, 116, 104, 105, 115, 32, 99, 111, 109, 112,
     114, 101, 104, 101, 110, 115, 105, 118, 101, 32, 103, 117, 105, 100, 101, 32, 111, 110, 32>>

\*   ... {topic} ...

\* serve.py:75, literal piece 2: '. This content has been generated with AI-enhanced features for '
IntroText2 ==
  <<46, 32, 84, 104, 105, 115, 32, 99, 111, 110, 116, 101, 110, 116, 32, 104, 97, 115, 32, 98, 101,
     101, 110, 32, 103, 101, 110, 101, 114, 97, 116, 101, 100, 32, 119, 105, 116, 104, 32, 65, 73,
     45, 101, 110, 104, 97, 110, 99, 101, 100, 32, 102, 101, 97, 116, 117, 114, 101, 115, 32, 102,
     111, 114, 32>>

\*   ... {audience} ...

\* serve.py:75, literal piece 3: ' audience, providing valuable insights and actionable strategies.'
IntroText3 ==
  <<32, 97, 117, 100, 105, 101, 110, 99, 101, 44, 32, 112, 114, 111, 118, 105, 100, 105, 110, 103,
     32, 118, 97, 108, 117, 97, 98, 108, 101, 32, 105, 110, 115, 105, 103, 104, 116, 115, 32, 97,
     110, 100, 32, 97, 99, 116, 105, 111, 110, 97, 98, 108, 101, 32, 115, 116, 114, 97, 116, 101,
     103, 105, 101, 115, 46>>

\* serve.py:78: 'Key Concepts and Fundamentals'
ConceptsTitle ==
  <<75, 101, 121, 32, 67, 111, 110, 99, 101, 112, 116, 115, 32, 97, 110, 100, 32, 70, 117, 110, 100,
     97, 109, 101, 110, 116, 97, 108, 115>>

\* serve.py:79, literal piece 1: 'Understanding '
ConceptsText1 ==
  <<85, 110, 100, 101, 114, 115, 116, 97, 110, 100, 105, 110, 103, 32>>

\*   ... {topic} ...

\* serve.py:79, literal piece 2: ' is essential for '
ConceptsText2 ==
  <<32, 105, 115, 32, 101, 115, 115, 101, 110, 116, 105, 97, 108, 32, 102, 111, 114, 32>>

\*   ... {audience} ...

\* serve.py:79, literal piece 3: ' success. This section covers fundamenta ... ahead in your field.'
ConceptsText3 ==
  <<32, 115, 117, 99, 99, 101, 115, 115, 46, 32, 84, 104, 105, 115, 32, 115, 101, 99, 116, 105, 111,
     110, 32, 99, 111, 118, 101, 114, 115, 32, 102, 117, 110, 100, 97, 109, 101, 110, 116, 97, 108,
     32, 99, 111, 110, 99, 101, 112, 116, 115, 44, 32, 98, 101, 115, 116, 32, 112, 114, 97, 99, 116,
     105, 99, 101, 115, 44, 32, 97, 110, 100, 32, 101, 109, 101, 114, 103, 105, 110, 103, 32, 116,
     114, 101, 110, 100, 115, 32, 116, 104, 97, 116, 32, 119, 105, 108, 108, 32, 104, 101, 108, 112,
     32, 121, 111, 117, 32, 115, 116, 97, 121, 32, 97, 104, 101, 97, 100, 32, 105, 110, 32, 121, 111,
     117, 114, 32, 102, 105, 101, 108, 100, 46>>

\* serve.py:87, literal piece 1: 'Key Focus Area '
FocusTitleText1 ==
  <<75, 101, 121, 32, 70, 111, 99, 117, 115, 32, 65, 114, 101, 97, 32>>

\*   ... {i + 1} ...

\* serve.py:87, literal piece 2: ': '
FocusTitleText2 ==
  <<58, 32>>

\*   ... {point} ...

\* serve.py:88, literal piece 1: '**'
FocusText1 ==
  <<42, 42>>

\*   ... {point} ...

\* serve.py:88, literal piece 2: '** represents a critical aspect of '
FocusText2 ==
  <<42, 42, 32, 114, 101, 112, 114, 101, 115, 101, 110, 116, 115, 32, 97, 32, 99, 114, 105, 116,
     105, 99, 97, 108, 32, 97, 115, 112, 101, 99, 116, 32, 111, 102, 32>>

\*   ... {topic} ...

\* serve.py:88, literal piece 3: ' implementation. This section provides d ... impact in this area.'
FocusText3 ==
  <<32, 105, 109, 112, 108, 101, 109, 101, 110, 116, 97, 116, 105, 111, 110, 46, 32, 84, 104, 105,
     115, 32, 115, 101, 99, 116, 105, 111, 110, 32, 112, 114, 111, 118, 105, 100, 101, 115, 32, 100,
     101, 116, 97, 105, 108, 101, 100, 32, 105, 110, 115, 105, 103, 104, 116, 115, 44, 32, 112, 114,
     97, 99, 116, 105, 99, 97, 108, 32, 97, 112, 112, 108, 105, 99, 97, 116, 105, 111, 110, 115, 44,
     32, 97, 110, 100, 32, 112, 114, 111, 118, 101, 110, 32, 115, 116, 114, 97, 116, 101, 103, 105,
     101, 115, 32, 102, 111, 114, 32, 109, 97, 120, 105, 109, 105, 122, 105, 110, 103, 32, 105, 109,
     112, 97, 99, 116, 32, 105, 110, 32, 116, 104, 105, 115, 32, 97, 114, 101, 97, 46>>

\* serve.py:93: 'Implementation Strategy'
StrategyTitle ==
  <<73, 109, 112, 108, 101, 109, 101, 110, 116, 97, 116, 105, 111, 110, 32, 83, 116, 114, 97, 116,
     101, 103, 121>>

\* serve.py:94, literal piece 1: 'A practical approach to implementing '
StrategyText1 ==
  <<65, 32, 112, 114, 97, 99, 116, 105, 99, 97, 108, 32, 97, 112, 112, 114, 111, 97, 99, 104, 32,
     116, 111, 32, 105, 109, 112, 108, 101, 109, 101, 110, 116, 105, 110, 103, 32>>

\*   ... {topic} ...

\* serve.py:94, literal piece 2: ' in your organization, with step-by-step ...  for maximum impact.'
StrategyText2 ==
  <<32, 105, 110, 32, 121, 111, 117, 114, 32, 111, 114, 103, 97, 110, 105, 122, 97, 116, 105, 111,
     110, 44, 32, 119, 105, 116, 104, 32, 115, 116, 101, 112, 45, 98, 121, 45, 115, 116, 101, 112,
     32, 103, 117, 105, 100, 97, 110, 99, 101, 44, 32, 112, 114, 111, 118, 101, 110, 32, 109, 101,
     116, 104, 111, 100, 111, 108, 111, 103, 105, 101, 115, 44, 32, 97, 110, 100, 32, 101, 120, 112,
     101, 114, 116, 32, 114, 101, 99, 111, 109, 109, 101, 110, 100, 97, 116, 105, 111, 110, 115, 32,
     102, 111, 114, 32, 109, 97, 120, 105, 109, 117, 109, 32, 105, 109, 112, 97, 99, 116, 46>>

\* serve.py:97: 'Best Practices & Recommendations'
PracticesTitle ==
  <<66, 101, 115, 116, 32, 80, 114, 97, 99, 116, 105, 99, 101, 115, 32, 38, 32, 82, 101, 99, 111,
     109, 109, 101, 110, 100, 97, 116, 105, 111, 110, 115>>

\* serve.py:98, literal piece 1: 'Industry-leading practices for '
PracticesText1 ==
  <<73, 110, 100, 117, 115, 116, 114, 121, 45, 108, 101, 97, 100, 105, 110, 103, 32, 112, 114, 97,
     99, 116, 105, 99, 101, 115, 32, 102, 111, 114, 32>>

\*   ... {topic} ...

\* serve.py:98, literal piece 2: ' implementation, including common pitfal ... r long-term success.'
PracticesText2 ==
  <<32, 105, 109, 112, 108, 101, 109, 101, 110, 116, 97, 116, 105, 111, 110, 44, 32, 105, 110, 99,
     108, 117, 100, 105, 110, 103, 32, 99, 111, 109, 109, 111, 110, 32, 112, 105, 116, 102, 97, 108,
     108, 115, 32, 116, 111, 32, 97, 118, 111, 105, 100, 44, 32, 115, 117, 99, 99, 101, 115, 115, 32,
     109, 101, 116, 114, 105, 99, 115, 32, 116, 111, 32, 116, 114, 97, 99, 107, 44, 32, 97, 110, 100,
     32, 111, 112, 116, 105, 109, 105, 122, 97, 116, 105, 111, 110, 32, 115, 116, 114, 97, 116, 101,
     103, 105, 101, 115, 32, 102, 111, 114, 32, 108, 111, 110, 103, 45, 116, 101, 114, 109, 32, 115,
     117, 99, 99, 101, 115, 115, 46>>

\* serve.py:103: 'Conclusion and Next Steps'
ConclusionTitle ==
  <<67, 111, 110, 99, 108, 117, 115, 105, 111, 110, 32, 97, 110, 100, 32, 78, 101, 120, 116, 32, 83,
     116, 101, 112, 115>>

\* serve.py:104, literal piece 1: 'In conclusion, '
ConclusionText1 ==
  <<73, 110, 32, 99, 111, 110, 99, 108, 117, 115, 105, 111, 110, 44, 32>>

\*   ... {topic} ...

\* serve.py:104, literal piece 2: ' represents a significant opportunity for '
ConclusionText2 ==
  <<32, 114, 101, 112, 114, 101, 115, 101, 110, 116, 115, 32, 97, 32, 115, 105, 103, 110, 105, 102,
     105, 99, 97, 110, 116, 32, 111, 112, 112, 111, 114, 116, 117, 110, 105, 116, 121, 32, 102, 111,
     114, 32>>

\*   ... {audience} ...

\* serve.py:104, literal piece 3: ' organizations to drive meaningful resul ... sustainable success.'
ConclusionText3 ==
  <<32, 111, 114, 103, 97, 110, 105, 122, 97, 116, 105, 111, 110, 115, 32, 116, 111, 32, 100, 114,
     105, 118, 101, 32, 109, 101, 97, 110, 105, 110, 103, 102, 117, 108, 32, 114, 101, 115, 117, 108,
     116, 115, 46, 32, 66, 121, 32, 105, 109, 112, 108, 101, 109, 101, 110, 116, 105, 110, 103, 32,
     116, 104, 101, 32, 115, 116, 114, 97, 116, 101, 103, 105, 101, 115, 32, 97, 110, 100, 32, 98,
     101, 115, 116, 32, 112, 114, 97, 99, 116, 105, 99, 101, 115, 32, 111, 117, 116, 108, 105, 110,
     101, 100, 32, 105, 110, 32, 116, 104, 105, 115, 32, 103, 117, 105, 100, 101, 44, 32, 121, 111,
     117, 32, 99, 97, 110, 32, 97, 99, 104, 105, 101, 118, 101, 32, 115, 117, 115, 116, 97, 105, 110,
     97, 98, 108, 101, 32, 115, 117, 99, 99, 101, 115, 115, 46>>

\*   ... {topic} ...

\* serve.py:111, literal piece 1: ': A Comprehensive Guide for '
TitleText1 ==
  <<58, 32, 65, 32, 67, 111, 109, 112, 114, 101, 104, 101, 110, 115, 105, 118, 101, 32, 71, 117,
     105, 100, 101, 32, 102, 111, 114, 32>>

\*   ... {audience.upper()} ...

\* serve.py:111, literal piece 2: ' Success'
TitleText2 ==
  <<32, 83, 117, 99, 99, 101, 115, 115>>

\* serve.py:140, literal piece 1: '\n                <svg width="800" height ...                     '
SvgText1 ==
  <<10, 32, 32, 32, 32, 32, 32, 32, 32, 32, 32, 32, 32, 32, 32, 32, 32, 60, 115, 118, 103, 32, 119,
     105, 100, 116, 104, 61, 34, 56, 48, 48, 34, 32, 104, 101, 105, 103, 104, 116, 61, 34, 54, 48,
     48, 34, 32, 120, 109, 108, 110, 115, 61, 34, 104, 116, 116, 112, 58, 47, 47, 119, 119, 119, 46,
     119, 51, 46, 111, 114, 103, 47, 50, 48, 48, 48, 47, 115, 118, 103, 34, 62, 10, 32, 32, 32, 32,
     32, 32, 32, 32, 32, 32, 32, 32, 32, 32, 32, 32, 32, 32, 60, 100, 101, 102, 115, 62, 10, 32, 32,
     32, 32, 32, 32, 32, 32, 32, 32, 32, 32, 32, 32, 32, 32, 32, 32, 32, 32, 60, 108, 105, 110, 101,
     97, 114, 71, 114, 97, 100, 105, 101, 110, 116, 32, 105, 100, 61, 34, 98, 103, 34, 32, 120, 49,
     61, 34, 48, 37, 34, 32, 121, 49, 61, 34, 48, 37, 34, 32, 120, 50, 61, 34, 49, 48, 48, 37, 34,
     32, 121, 50, 61, 34, 49, 48, 48, 37, 34, 62, 10, 32, 32, 32, 32, 32, 32, 32, 32, 32, 32, 32, 32,
     32, 32, 32, 32, 32, 32, 32, 32, 32, 32, 60, 115, 116, 111, 112, 32, 111, 102, 102, 115, 101,
     116, 61, 34, 48, 37, 34, 32, 115, 116, 121, 108, 101, 61, 34, 115, 116, 111, 112, 45, 99, 111,
     108, 111, 114, 58, 35, 51, 98, 56, 50, 102, 54, 59, 115, 116, 111, 112, 45, 111, 112, 97, 99,
     105, 116, 121, 58, 48, 46, 49, 34, 32, 47, 62, 10, 32, 32, 32, 32, 32, 32, 32, 32, 32, 32, 32,
     32, 32, 32, 32, 32, 32, 32, 32, 32, 32, 32, 60, 115, 116, 111, 112, 32, 111, 102, 102, 115, 101,
     116, 61, 34, 49, 48, 48, 37, 34, 32, 115, 116, 121, 108, 101, 61, 34, 115, 116, 111, 112, 45,
     99, 111, 108, 111, 114, 58, 35, 49, 101, 52, 48, 97, 102, 59, 115, 116, 111, 112, 45, 111, 112,
     97, 99, 105, 116, 121, 58, 48, 46, 50, 34, 32, 47, 62, 10, 32, 32, 32, 32, 32, 32, 32, 32, 32,
     32, 32, 32, 32, 32, 32, 32, 32, 32, 32, 32, 60, 47, 108, 105, 110, 101, 97, 114, 71, 114, 97,
     100, 105, 101, 110, 116, 62, 10, 32, 32, 32, 32, 32, 32, 32, 32, 32, 32, 32, 32, 32, 32, 32, 32,
     32, 32, 60, 47, 100, 101, 102, 115, 62, 10, 32, 32, 32, 32, 32, 32, 32, 32, 32, 32, 32, 32, 32,
     32, 32, 32, 32, 32, 60, 114, 101, 99, 116, 32, 119, 105, 100, 116, 104, 61, 34, 49, 48, 48, 37,
     34, 32, 104, 101, 105, 103, 104, 116, 61, 34, 49, 48, 48, 37, 34, 32, 102, 105, 108, 108, 61,
     34, 117, 114, 108, 40, 35, 98, 103, 41, 34, 47, 62, 10, 32, 32, 32, 32, 32, 32, 32, 32, 32, 32,
     32, 32, 32, 32, 32, 32, 32, 32, 60, 99, 105, 114, 99, 108, 101, 32, 99, 120, 61, 34, 52, 48, 48,
     34, 32, 99, 121, 61, 34, 51, 48, 48, 34, 32, 114, 61, 34, 49, 50, 48, 34, 32, 102, 105, 108,
     108, 61, 34, 35, 51, 98, 56, 50, 102, 54, 34, 32, 111, 112, 97, 99, 105, 116, 121, 61, 34, 48,
     46, 55, 34, 47, 62, 10, 32, 32, 32, 32, 32, 32, 32, 32, 32, 32, 32, 32, 32, 32, 32, 32, 32, 32,
     60, 114, 101, 99, 116, 32, 120, 61, 34, 51, 50, 48, 34, 32, 121, 61, 34, 50, 50, 48, 34, 32,
     119, 105, 100, 116, 104, 61, 34, 49, 54, 48, 34, 32, 104, 101, 105, 103, 104, 116, 61, 34, 49,
     54, 48, 34, 32, 102, 105, 108, 108, 61, 34, 110, 111, 110, 101, 34, 32, 115, 116, 114, 111, 107,
     101, 61, 34, 35, 49, 101, 52, 48, 97, 102, 34, 32, 115, 116, 114, 111, 107, 101, 45, 119, 105,
     100, 116, 104, 61, 34, 51, 34, 32, 111, 112, 97, 99, 105, 116, 121, 61, 34, 48, 46, 56, 34, 47,
     62, 10, 32, 32, 32, 32, 32, 32, 32, 32, 32, 32, 32, 32, 32, 32, 32, 32, 32, 32, 60, 116, 101,
     120, 116, 32, 120, 61, 34, 52, 48, 48, 34, 32, 121, 61, 34, 51, 50, 48, 34, 32, 116, 101, 120,
     116, 45, 97, 110, 99, 104, 111, 114, 61, 34, 109, 105, 100, 100, 108, 101, 34, 32, 102, 111,
     110, 116, 45, 102, 97, 109, 105, 108, 121, 61, 34, 65, 114, 105, 97, 108, 44, 32, 115, 97, 110,
     115, 45, 115, 101, 114, 105, 102, 34, 32, 102, 111, 110, 116, 45, 115, 105, 122, 101, 61, 34,
     50, 52, 34, 32, 102, 111, 110, 116, 45, 119, 101, 105, 103, 104, 116, 61, 34, 98, 111, 108, 100,
     34, 32, 102, 105, 108, 108, 61, 34, 35, 49, 101, 52, 48, 97, 102, 34, 62, 10, 32, 32, 32, 32,
     32, 32, 32, 32, 32, 32, 32, 32, 32, 32, 32, 32, 32, 32, 32, 32, 65, 73, 32, 71, 101, 110, 101,
     114, 97, 116, 101, 100, 10, 32, 32, 32, 32, 32, 32, 32, 32, 32, 32, 32, 32, 32, 32, 32, 32, 32,
     32, 60, 47, 116, 101, 120, 116, 62, 10, 32, 32, 32, 32, 32, 32, 32, 32, 32, 32, 32, 32, 32, 32,
     32, 32, 32, 32, 60, 116, 101, 120, 116, 32, 120, 61, 34, 52, 48, 48, 34, 32, 121, 61, 34, 51,
     53, 48, 34, 32, 116, 101, 120, 116, 45, 97, 110, 99, 104, 111, 114, 61, 34, 109, 105, 100, 100,
     108, 101, 34, 32, 102, 111, 110, 116, 45, 102, 97, 109, 105, 108, 121, 61, 34, 65, 114, 105, 97,
     108, 44, 32, 115, 97, 110, 115, 45, 115, 101, 114, 105, 102, 34, 32, 102, 111, 110, 116, 45,
     115, 105, 122, 101, 61, 34, 49, 56, 34, 32, 102, 105, 108, 108, 61, 34, 35, 54, 52, 55, 52, 56,
     98, 34, 62, 10, 32, 32, 32, 32, 32, 32, 32, 32, 32, 32, 32, 32, 32, 32, 32, 32, 32, 32, 32, 32>>

\*   ... {image_style} ...

\* serve.py:140, literal piece 2: ' Style\n                  </text>\n        ...              Topic: '
SvgText2 ==
  <<32, 83, 116, 121, 108, 101, 10, 32, 32, 32, 32, 32, 32, 32, 32, 32, 32, 32, 32, 32, 32, 32, 32,
     32, 32, 60, 47, 116, 101, 120, 116, 62, 10, 32, 32, 32, 32, 32, 32, 32, 32, 32, 32, 32, 32, 32,
     32, 32, 32, 32, 32, 60, 116, 101, 120, 116, 32, 120, 61, 34, 52, 48, 48, 34, 32, 121, 61, 34,
     51, 56, 48, 34, 32, 116, 101, 120, 116, 45, 97, 110, 99, 104, 111, 114, 61, 34, 109, 105, 100,
     100, 108, 101, 34, 32, 102, 111, 110, 116, 45, 102, 97, 109, 105, 108, 121, 61, 34, 65, 114,
     105, 97, 108, 44, 32, 115, 97, 110, 115, 45, 115, 101, 114, 105, 102, 34, 32, 102, 111, 110,
     116, 45, 115, 105, 122, 101, 61, 34, 49, 54, 34, 32, 102, 105, 108, 108, 61, 34, 35, 54, 52, 55,
     52, 56, 98, 34, 62, 10, 32, 32, 32, 32, 32, 32, 32, 32, 32, 32, 32, 32, 32, 32, 32, 32, 32, 32,
     32, 32, 84, 111, 112, 105, 99, 58, 32>>

\*   ... {topic} ...

\* serve.py:140, literal piece 3: '\n                  </text>\n              ... vg>\n                '
SvgText3 ==
  <<10, 32, 32, 32, 32, 32, 32, 32, 32, 32, 32, 32, 32, 32, 32, 32, 32, 32, 32, 60, 47, 116, 101,
     120, 116, 62, 10, 32, 32, 32, 32, 32, 32, 32, 32, 32, 32, 32, 32, 32, 32, 32, 32, 32, 32, 60,
     116, 101, 120, 116, 32, 120, 61, 34, 52, 48, 48, 34, 32, 121, 61, 34, 52, 49, 48, 34, 32, 116,
     101, 120, 116, 45, 97, 110, 99, 104, 111, 114, 61, 34, 109, 105, 100, 100, 108, 101, 34, 32,
     102, 111, 110, 116, 45, 102, 97, 109, 105, 108, 121, 61, 34, 65, 114, 105, 97, 108, 44, 32, 115,
     97, 110, 115, 45, 115, 101, 114, 105, 102, 34, 32, 102, 111, 110, 116, 45, 115, 105, 122, 101,
     61, 34, 49, 52, 34, 32, 102, 105, 108, 108, 61, 34, 35, 57, 52, 97, 51, 98, 56, 34, 62, 10, 32,
     32, 32, 32, 32, 32, 32, 32, 32, 32, 32, 32, 32, 32, 32, 32, 32, 32, 32, 32, 71, 101, 110, 101,
     114, 97, 116, 101, 100, 32, 119, 105, 116, 104, 32, 68, 65, 76, 76, 45, 69, 32, 73, 110, 116,
     101, 103, 114, 97, 116, 105, 111, 110, 10, 32, 32, 32, 32, 32, 32, 32, 32, 32, 32, 32, 32, 32,
     32, 32, 32, 32, 32, 60, 47, 116, 101, 120, 116, 62, 10, 32, 32, 32, 32, 32, 32, 32, 32, 32, 32,
     32, 32, 32, 32, 32, 32, 60, 47, 115, 118, 103, 62, 10, 32, 32, 32, 32, 32, 32, 32, 32, 32, 32,
     32, 32, 32, 32, 32, 32>>

\* serve.py:167, literal piece 1: 'data:image/svg+xml;base64,'
DataUriText1 ==
  <<100, 97, 116, 97, 58, 105, 109, 97, 103, 101, 47, 115, 118, 103, 43, 120, 109, 108, 59, 98, 97,
     115, 101, 54, 52, 44>>

\*   ... {base64.b64encode(svg_content.encode()).decode()} ...

(***************************************************************************)
(* Python text operations used by the handlers.                            *)
(***************************************************************************)
\* str.isspace() for one code point: the separators of str.split()
IsSpace(c) ==
  \/ c \in 9..13
  \/ c \in 28..32
  \/ c = 133 \/ c = 160 \/ c = 5760
  \/ c \in 8192..8202
  \/ c = 8232 \/ c = 8233 \/ c = 8239 \/ c = 8287 \/ c = 12288

\* index of the last character of the token that starts at s[i]
RECURSIVE TokenEnd(_, _)
TokenEnd(s, i) ==
  IF i = Len(s) \/ IsSpace(s[i + 1]) THEN i ELSE TokenEnd(s, i + 1)

\* str.split() with no argument, scanning from index i: runs of whitespace
\* separate the tokens, leading and trailing whitespace yields no token
RECURSIVE SplitFrom(_, _)
SplitFrom(s, i) ==
  IF i > Len(s) THEN <<>>
  ELSE IF IsSpace(s[i]) THEN SplitFrom(s, i + 1)
  ELSE LET j == TokenEnd(s, i)
       IN  <<SubSeq(s, i, j)>> \o SplitFrom(s, j + 1)

Split(s) == SplitFrom(s, 1)

\* str.upper() on ASCII text
Upper(s) == [i \in 1..Len(s) |-> IF s[i] \in 97..122 THEN s[i] - 32 ELSE s[i]]

\* str(n) for a natural number: its decimal digits
RECURSIVE IntToStr(_)
IntToStr(n) ==
  IF n < 10 THEN <<48 + n>> ELSE IntToStr(n \div 10) \o <<48 + (n % 10)>>

\* a lone surrogate cannot be encoded as UTF-8
IsSurrogate(c) == c \in 55296..57343
CanEncode(s) == \A i \in 1..Len(s) : ~IsSurrogate(s[i])

\* the UTF-8 bytes of one code point
Utf8Char(c) ==
  IF c < 128 THEN <<c>>
  ELSE IF c < 2048 THEN <<192 + (c \div 64), 128 + (c % 64)>>
  ELSE IF c < 65536
    THEN <<224 + (c \div 4096), 128 + ((c \div 64) % 64), 128 + (c % 64)>>
  ELSE <<240 + (c \div 262144), 128 + ((c \div 4096) % 64),
         128 + ((c \div 64) % 64), 128 + (c % 64)>>

\* str.encode() of s[lo..hi], for text that CanEncode
RECURSIVE Utf8Range(_, _, _)
Utf8Range(s, lo, hi) ==
  IF lo > hi THEN <<>>
  ELSE IF lo = hi THEN Utf8Char(s[lo])
  ELSE LET mid == (lo + hi) \div 2
       IN  Utf8Range(s, lo, mid) \o Utf8Range(s, mid + 1, hi)

Utf8Encode(s) == Utf8Range(s, 1, Len(s))

\* the base64 alphabet: A-Z a-z 0-9 + /
B64Char(v) ==
  IF v < 26 THEN 65 + v
  ELSE IF v < 52 THEN 97 + (v - 26)
  ELSE IF v < 62 THEN 48 + (v - 52)
  ELSE IF v = 62 THEN 43 ELSE 47

\* base64.b64encode(b).decode(): every 3 bytes become 4 characters, the last
\* group is zero-filled and padded with '='
B64Encode(b) ==
  LET n == Len(b)
      ByteAt(i) == IF i <= n THEN b[i] ELSE 0
      Group(g) == ByteAt(3 * g + 1) * 65536 + ByteAt(3 * g + 2) * 256
                    + ByteAt(3 * g + 3)
      Sextet(g, p) == IF p = 0 THEN Group(g) \div 262144
                      ELSE IF p = 1 THEN (Group(g) \div 4096) % 64
                      ELSE IF p = 2 THEN (Group(g) \div 64) % 64
                      ELSE Group(g) % 64
      Out(k) == LET g == (k - 1) \div 4
                    p == (k - 1) % 4
                IN  IF 3 * g + p > n THEN 61 ELSE B64Char(Sextet(g, p))
  IN  [k \in 1..(4 * ((n + 2) \div 3)) |-> Out(k)]

(***************************************************************************)
(* JSON values as json.loads returns them.  s: the text of a string or the *)
(* decimal digits of a number; keys, items: the keys and values of a dict, *)
(* items alone the elements of a list.                                     *)
(***************************************************************************)
JVal(t, s, keys, items) == [t |-> t, s |-> s, keys |-> keys, items |-> items]
Absent == JVal("absent", <<>>, <<>>, <<>>)   \* the key is not in the dict
JNull == JVal("null", <<>>, <<>>, <<>>)
JTrue == JVal("true", <<>>, <<>>, <<>>)
JFalse == JVal("false", <<>>, <<>>, <<>>)
JStr(s) == JVal("str", s, <<>>, <<>>)
JNum(n) == JVal("num", IntToStr(n), <<>>, <<>>)
JArr(items) == JVal("arr", <<>>, <<>>, items)
JObj(keys, items) == JVal("obj", <<>>, keys, items)
\* dicts nested close to the interpreter's recursion limit: json.loads still
\* accepts the value, json.dumps of a response that embeds it raises
\* RecursionError
JDeep == JVal("deep", <<>>, <<>>, <<>>)

\* bool(v)
Truthy(v) ==
  CASE v.t = "null" -> FALSE
    [] v.t = "false" -> FALSE
    [] v.t = "true" -> TRUE
    [] v.t = "num" -> v.s # <<48>>
    [] v.t = "str" -> v.s # <<>>
    [] v.t = "arr" -> v.items # <<>>
    [] v.t = "obj" -> v.keys # <<>>
    [] OTHER -> TRUE

\* format(v) inside an f-string, for the scalar values
Str(v) ==
  CASE v.t = "str" -> v.s
    [] v.t = "num" -> v.s
    [] v.t = "true" -> <<84, 114, 117, 101>>
    [] v.t = "false" -> <<70, 97, 108, 115, 101>>
    [] OTHER -> <<78, 111, 110, 101>>

\* a plausible slip in serve.py:84-85: only a list taken to be iterable
IterableListOnly(v) == v.t = "arr"

\* iter(v) succeeds for list, str and dict
Iterable(v) == v.t \in {"arr", "str", "obj", "deep"}

\* the values enumerate(v) yields: the elements of a list, the characters of
\* a str, the keys of a dict
Elements(v) ==
  CASE v.t = "arr" -> v.items
    [] v.t = "str" -> [i \in 1..Len(v.s) |-> JStr(<<v.s[i]>>)]
    [] OTHER -> [i \in 1..Len(v.keys) |-> JStr(v.keys[i])]

(***************************************************************************)
(* Default values of handle_content_generation.                            *)
(***************************************************************************)
\* serve.py:55: 'Unknown topic'
UnknownTopic == <<85, 110, 107, 110, 111, 119, 110, 32, 116, 111, 112, 105, 99>>
\* serve.py:60: 'Sample Topic'
SampleTopic == <<83, 97, 109, 112, 108, 101, 32, 84, 111, 112, 105, 99>>
\* serve.py:61: 'b2b'
DefaultAudience == <<98, 50, 98>>
\* serve.py:62: 'blog_post'
DefaultContentType == <<98, 108, 111, 103, 95, 112, 111, 115, 116>>
\* serve.py:64 and 68: 'professional'
Professional == <<112, 114, 111, 102, 101, 115, 115, 105, 111, 110, 97, 108>>
\* serve.py:65: 'general'
General == <<103, 101, 110, 101, 114, 97, 108>>
\* serve.py:69: 'voice'
VoiceKey == <<118, 111, 105, 99, 101>>
\* serve.py:69: 'alloy'
Alloy == <<97, 108, 108, 111, 121>>
\* serve.py:69: {'voice': 'alloy', 'speed': 1.0, 'stability': 0.75}; the
\* handler reads the 'voice' entry only
DefaultVoiceSettings == JObj(<<VoiceKey>>, <<JStr(Alloy)>>)

(***************************************************************************)
(* Requests and responses.                                                 *)
(***************************************************************************)
\* the keys handle_content_generation reads from the body (serve.py:60-69)
FieldNames ==
  {"topic", "audience", "contentType", "keyPoints", "toneOfVoice",
   "llmTarget", "enableImageGeneration", "enableTextToSpeech", "imageStyle",
   "voiceSettings"}

NoFields == [k \in FieldNames |-> Absent]

\* a request body: bytes that are not JSON ("malformed"), a JSON object with
\* the fields f ("object"), or any other JSON value ("other")
Body(kind, f) == [kind |-> kind, f |-> f]
NoBody == Body("none", NoFields)

\* clen: the Content-Length header, "ok" or "missing"
Request(method, path, clen, body) ==
  [method |-> method, path |-> path, clen |-> clen, body |-> body]

\* data.get(key, default)
Get(data, key, default) ==
  IF data.f[key].t = "absent" THEN default ELSE data.f[key]

\* d.get(key, default) for a dict held as a JSON value
DictGet(d, key, default) ==
  IF \E i \in 1..Len(d.keys) : d.keys[i] = key /\ i <= Len(d.items)
    THEN d.items[CHOOSE i \in 1..Len(d.keys) : d.keys[i] = key]
    ELSE default

IsDict(v) == v.t \in {"obj", "deep"}

\* json.dumps accepts every value json.loads produced, except nesting beyond
\* the recursion limit
Encodable(v) == v.t # "deep"

\* what a handler wrote: the status lines in the order they reached the
\* socket, the reason phrase of the first one, the exception raised inside
\* the handler ("none" if none) and the last body written
NoContent ==
  [kind |-> "none", success |-> FALSE, title |-> <<>>, sections |-> <<>>,
   wordCount |-> 0, readingTime |-> 0, estimatedTokenCount |-> 0,
   hasImageGeneration |-> FALSE, imageUrl |-> <<>>,
   hasAudioGeneration |-> FALSE, voiceId |-> <<>>, textLength |-> 0,
   error |-> "none"]

Response(statuses, reason, raised, body) ==
  [statuses |-> statuses, reason |-> reason, raised |-> raised, body |-> body]

(***************************************************************************)
(* handle_content_generation (serve.py:49-217).                            *)
(***************************************************************************)
Section(title, content) == [title |-> title, content |-> content]

\* serve.py:72-81
FixedHead(topic, audience) ==
  << Section(IntroTitle,
             IntroText1 \o topic \o IntroText2 \o audience \o IntroText3),
     Section(ConceptsTitle,
             ConceptsText1 \o topic \o ConceptsText2 \o audience
               \o ConceptsText3) >>

\* a plausible slip in serve.py:87: the index of enumerate() used as is
FocusTitleZeroBased(i, point) ==
  FocusTitleText1 \o IntToStr(i) \o FocusTitleText2 \o point

\* serve.py:87: the title of the section of the point enumerate() numbers i
FocusTitle(i, point) ==
  FocusTitleText1 \o IntToStr(i + 1) \o FocusTitleText2 \o point

\* serve.py:85-89: one section per key point, i counted from 0
KeyPointSections(points, topic) ==
  [k \in 1..Len(points) |->
     Section(FocusTitle(k - 1, Str(points[k])),
             FocusText1 \o Str(points[k]) \o FocusText2 \o topic
               \o FocusText3)]

\* serve.py:91-100
FallbackSections(topic) ==
  << Section(StrategyTitle, StrategyText1 \o topic \o StrategyText2),
     Section(PracticesTitle, PracticesText1 \o topic \o PracticesText2) >>

\* serve.py:102-105
ConclusionSection(topic, audience) ==
  Section(ConclusionTitle,
          ConclusionText1 \o topic \o ConclusionText2 \o audience
            \o ConclusionText3)

\* serve.py:71-105: the sections list when the response is built
Sections(topic, audience, key_points) ==
  FixedHead(topic, audience)
    \o (IF Truthy(key_points)
          THEN KeyPointSections(Elements(key_points), topic)
          ELSE FallbackSections(topic))
    \o <<ConclusionSection(topic, audience)>>

RECURSIVE SumSeq(_, _)
SumSeq(f, n) == IF n = 0 THEN 0 ELSE f[n] + SumSeq(f, n - 1)

\* a plausible slip in serve.py:107: the count taken before the Conclusion
\* section was appended
WordCountBeforeConclusion(sections) ==
  SumSeq([k \in 1..(Len(sections) - 1) |-> Len(Split(sections[k].content))],
         Len(sections) - 1)

\* serve.py:107: sum(len(section['content'].split()) for section in sections)
WordCount(sections) ==
  SumSeq([k \in 1..Len(sections) |-> Len(Split(sections[k].content))],
         Len(sections))

\* serve.py:119
EstimatedTokenCount(sections) ==
  SumSeq([k \in 1..Len(sections) |-> Len(sections[k].content) \div 4],
         Len(sections))

\* serve.py:123: max(1, word_count // 200)
ReadingTime(word_count) ==
  IF word_count \div 200 > 1 THEN word_count \div 200 ELSE 1

\* serve.py:186
TextLength(sections) ==
  SumSeq([k \in 1..Len(sections) |-> Len(sections[k].content)],
         Len(sections))

\* a plausible slip in serve.py:158: the style interpolated where the topic
\* belongs
SvgContentWithoutTopic(image_style, topic) ==
  SvgText1 \o image_style \o SvgText2 \o image_style \o SvgText3

\* serve.py:140-164
SvgContent(image_style, topic) ==
  SvgText1 \o image_style \o SvgText2 \o topic \o SvgText3

\* serve.py:167
ImageUrl(svg_content) == DataUriText1 \o B64Encode(Utf8Encode(svg_content))

\* The first statement of the handler that raises, as
\* <<exception, line>>, or <<"none", 0>>.
GenerationFailure(req) ==
  LET data == req.body
      topic == Str(Get(data, "topic", JStr(SampleTopic)))
      audience == Get(data, "audience", JStr(DefaultAudience))
      key_points == Get(data, "keyPoints", JArr(<<>>))
      enable_image == Get(data, "enableImageGeneration", JFalse)
      enable_audio == Get(data, "enableTextToSpeech", JFalse)
      image_style == Str(Get(data, "imageStyle", JStr(Professional)))
      voice_settings == Get(data, "voiceSettings", DefaultVoiceSettings)
      echoed == {Get(data, "contentType", JStr(DefaultContentType)),
                 Get(data, "toneOfVoice", JStr(Professional)),
                 Get(data, "llmTarget", JStr(General))}
                  \cup (IF Truthy(enable_audio) THEN {voice_settings} ELSE {})
  IN  IF req.clen = "missing" THEN <<"TypeError", 51>>
      ELSE IF data.kind = "malformed" THEN <<"JSONDecodeError", 53>>
      ELSE IF data.kind # "object" THEN <<"AttributeError", 55>>
      ELSE IF ~CanEncode(Str(Get(data, "topic", JStr(UnknownTopic))))
        THEN <<"UnicodeEncodeError", 55>>
      ELSE IF Truthy(key_points) /\ ~Iterable(key_points)
        THEN <<"TypeError", 85>>
      ELSE IF audience.t # "str" THEN <<"AttributeError", 111>>
      ELSE IF Truthy(enable_audio) /\ ~IsDict(voice_settings)
        THEN <<"AttributeError", 129>>
      ELSE IF Truthy(enable_image) /\ ~CanEncode(SvgContent(image_style, topic))
        THEN <<"UnicodeEncodeError", 167>>
      ELSE IF \E v \in echoed : ~Encodable(v) THEN <<"RecursionError", 202>>
      ELSE <<"none", 0>>

\* serve.py:109-196: the body of the success envelope
GeneratedContent(req) ==
  LET data == req.body
      topic == Str(Get(data, "topic", JStr(SampleTopic)))
      audience == Get(data, "audience", JStr(DefaultAudience))
      key_points == Get(data, "keyPoints", JArr(<<>>))
      enable_image == Get(data, "enableImageGeneration", JFalse)
      enable_audio == Get(data, "enableTextToSpeech", JFalse)
      image_style == Str(Get(data, "imageStyle", JStr(Professional)))
      voice_settings == Get(data, "voiceSettings", DefaultVoiceSettings)
      sections == Sections(topic, audience.s, key_points)
      word_count == WordCount(sections)
  IN  [NoContent EXCEPT
         !.kind = "generated",
         !.success = TRUE,
         !.title = topic \o TitleText1 \o Upper(audience.s) \o TitleText2,
         !.sections = sections,
         !.wordCount = word_count,
         !.readingTime = ReadingTime(word_count),
         !.estimatedTokenCount = EstimatedTokenCount(sections),
         !.hasImageGeneration = Truthy(enable_image),
         !.imageUrl = IF Truthy(enable_image)
                        THEN ImageUrl(SvgContent(image_style, topic))
                        ELSE <<>>,
         !.hasAudioGeneration = Truthy(enable_audio),
         !.voiceId = IF Truthy(enable_audio)
                       THEN Str(DictGet(voice_settings, VoiceKey, JStr(Alloy)))
                       ELSE <<>>,
         !.textLength = IF Truthy(enable_audio) THEN TextLength(sections)
                        ELSE 0]

\* serve.py:212-216: the body of the error envelope
ErrorEnvelope(exception) ==
  [NoContent EXCEPT !.kind = "error", !.error = exception]

\* serve.py:198: a status line whose reason is the standard phrase
ReasonOK == "OK"
ReasonInternal == "Internal Server Error"

\* serve.py:49-217.  An exception raised before line 198 reaches the except
\* clause with nothing written; json.dumps at line 202 raises after
\* end_headers at line 201 has flushed the 200 status line and its headers,
\* and the except clause then writes a 500 status line and the error
\* envelope to the same connection.
handle_content_generation(req) ==
  LET failure == GenerationFailure(req)
  IN  IF failure[1] = "none"
        THEN Response(<<200>>, ReasonOK, "none", GeneratedContent(req))
      ELSE IF failure[2] < 198
        THEN Response(<<500>>, ReasonInternal, failure[1],
                      ErrorEnvelope(failure[1]))
      ELSE Response(<<200, 500>>, ReasonOK, failure[1],
                    ErrorEnvelope(failure[1]))

(***************************************************************************)
(* Request dispatch of the API facade server (serve.py:11-47, 219-246).    *)
(***************************************************************************)
\* the files under client/build, the directory of the handler
\* (serve.py:13); the content of that directory is the environment's
BuildFiles == {"/index.html"}

\* http.server.SimpleHTTPRequestHandler.do_GET, reached by super().do_GET()
\* at serve.py:30
StaticGET(req) ==
  IF req.path \in BuildFiles
    THEN Response(<<200>>, ReasonOK, "none", [NoContent EXCEPT !.kind = "file"])
    ELSE Response(<<404>>, "File not found", "none",
                  [NoContent EXCEPT !.kind = "errorpage"])

\* http.server.SimpleHTTPRequestHandler.do_HEAD, inherited by the class at
\* serve.py:11: the status line and headers of do_GET and no body
StaticHEAD(req) ==
  IF req.path \in BuildFiles
    THEN Response(<<200>>, ReasonOK, "none", NoContent)
    ELSE Response(<<404>>, "File not found", "none", NoContent)

\* serve.py:15-30
do_GET(req) ==
  IF req.path = "/health"
    THEN Response(<<200>>, ReasonOK, "none",
                  [NoContent EXCEPT !.kind = "health"])
    ELSE StaticGET(req)

\* serve.py:219-232
handle_content_analysis(req) ==
  Response(<<200>>, ReasonOK, "none",
           [NoContent EXCEPT !.kind = "analysis", !.success = TRUE])

\* serve.py:234-246
handle_content_chunking(req) ==
  Response(<<200>>, ReasonOK, "none",
           [NoContent EXCEPT !.kind = "chunking", !.success = TRUE])

\* a plausible slip in serve.py:39-40: an unknown POST path handed to the
\* static file logic like an unknown GET path
do_POSTFallsThrough(req) ==
  IF req.path = "/llm-content/generate" THEN handle_content_generation(req)
  ELSE IF req.path = "/llm-content/analyze" THEN handle_content_analysis(req)
  ELSE IF req.path = "/llm-content/chunk" THEN handle_content_chunking(req)
  ELSE StaticGET(req)

\* serve.py:32-40
do_POST(req) ==
  IF req.path = "/llm-content/generate" THEN handle_content_generation(req)
  ELSE IF req.path = "/llm-content/analyze" THEN handle_content_analysis(req)
  ELSE IF req.path = "/llm-content/chunk" THEN handle_content_chunking(req)
  ELSE Response(<<404>>, "Endpoint not found", "none",
                [NoContent EXCEPT !.kind = "errorpage"])

\* serve.py:42-47
do_OPTIONS(req) == Response(<<200>>, ReasonOK, "none", NoContent)

\* http.server.BaseHTTPRequestHandler.handle_one_request, the base class of
\* the handler at serve.py:11: the method 'do_' + command is looked up on the
\* handler and a command without one is answered with 501
handle_one_request(req) ==
  CASE req.method = "GET" -> do_GET(req)
    [] req.method = "HEAD" -> StaticHEAD(req)
    [] req.method = "POST" -> do_POST(req)
    [] req.method = "OPTIONS" -> do_OPTIONS(req)
    [] OTHER -> Response(<<501>>, "Unsupported method", "none",
                         [NoContent EXCEPT !.kind = "errorpage"])

(***************************************************************************)
(* The requests that are enumerated.                                       *)
(***************************************************************************)
GeneratePath == "/llm-content/generate"

Topics ==
  { Absent, JStr(<<65, 233, 32, 98>>), JStr(<<>>), JStr(<<55296>>), JTrue }

Audiences == { Absent, JStr(<<98, 50, 99>>), JNum(5) }

Points == { JStr(<<121, 32, 122>>), JStr(<<>>) }

KeyPointLists == UNION { [1..n -> Points] : n \in 0..MaxKeyPoints }

KeyPointValues ==
  { JArr(l) : l \in KeyPointLists }
    \cup { Absent, JNull, JNum(5), JStr(<<97, 98>>),
           JObj(<<<<107>>>>, <<JNum(1)>>) }

\* <<enableImageGeneration, imageStyle>>
ImageSettings ==
  { <<Absent, Absent>>, <<JTrue, Absent>>, <<JFalse, Absent>>,
    <<JStr(<<110, 111>>), Absent>>, <<JTrue, JStr(<<102, 56832>>)>>,
    <<JFalse, JStr(<<102, 56832>>)>> }

\* <<enableTextToSpeech, voiceSettings>>
AudioSettings ==
  { <<Absent, Absent>>, <<JTrue, Absent>>,
    <<JTrue, JObj(<<VoiceKey>>, <<JStr(<<110, 111, 118, 97>>)>>)>>,
    <<JTrue, JArr(<<JNum(1)>>)>>, <<JNum(1), JNull>> }

ContentTypes == { Absent, JDeep }

GenBodies ==
  { Body("object",
         [NoFields EXCEPT !["topic"] = t, !["audience"] = a,
                          !["keyPoints"] = kp,
                          !["enableImageGeneration"] = im[1],
                          !["imageStyle"] = im[2],
                          !["enableTextToSpeech"] = au[1],
                          !["voiceSettings"] = au[2],
                          !["contentType"] = ct]) :
      t \in Topics, a \in Audiences, kp \in KeyPointValues,
      im \in ImageSettings, au \in AudioSettings, ct \in ContentTypes }

\* the bodies of one POST to /llm-content/generate on a fresh server
GenReqs ==
  { Request("POST", GeneratePath, "ok", b) : b \in GenBodies }
    \cup { Request("POST", GeneratePath, "ok", Body(k, NoFields)) :
             k \in {"malformed", "other"} }
    \cup { Request("POST", GeneratePath, "missing", Body("object", NoFields)) }

DeepBody == Body("object", [NoFields EXCEPT !["contentType"] = JDeep])

\* the requests of a sequence of connections
ServerReqs ==
  { Request(m, p, "ok", NoBody) :
      m \in {"GET", "HEAD", "OPTIONS", "PUT", "DELETE"},
      p \in {"/health", "/index.html", "/other", GeneratePath} }
    \cup { Request("POST", p, "ok", Body("object", NoFields)) :
             p \in {"/llm-content/analyze", "/llm-content/chunk", "/other",
                    "/health", GeneratePath} }
    \cup { Request("POST", GeneratePath, "ok", Body("malformed", NoFields)),
           Request("POST", GeneratePath, "ok", DeepBody) }

(***************************************************************************)
(* State.                                                                  *)
(***************************************************************************)
VARIABLES
  backlog,    \* facade server: accepted-by-kernel connections, oldest first
  handling,   \* facade server: the connections whose handler is running
  last,       \* facade server: the connection answered last, its response
  doneIds,    \* facade server: the ids of the answered connections, in order
  nextId,     \* facade server: the id of the next connection
  pc,         \* asset server: position in start-frontend.py
  buildDir,   \* asset server: TRUE while BUILD_DIR exists
  files,      \* asset server: the entries of BUILD_DIR
  cwd,        \* asset server: working directory of the process
  bound,      \* asset server: TRUE once the listening socket is bound
  exitStatus, \* asset server: exit status, -1 while running
  out,        \* asset server: lines printed so far
  served      \* asset server: the GET answered last

vars == <<backlog, handling, last, doneIds, nextId,
          pc, buildDir, files, cwd, bound, exitStatus, out, served>>

apiVars == <<backlog, handling, last, doneIds, nextId>>
assetVars == <<pc, buildDir, files, cwd, bound, exitStatus, out, served>>

NoRequest == Request("none", "", "ok", NoBody)
NoResponse == Response(<<>>, "", "none", NoContent)
Conn(id, req) == [id |-> id, req |-> req]

(***************************************************************************)
(* The API facade server: socketserver.TCPServer.serve_forever             *)
(* (serve.py:251-256).                                                     *)
(***************************************************************************)
\* state after TCPServer(("", PORT), ContentArchitectHandler) has bound
InitApi ==
  /\ backlog = <<>>
  /\ handling = {}
  /\ last = [id |-> 0, req |-> NoRequest, resp |-> NoResponse]
  /\ doneIds = <<>>
  /\ nextId = 1

\* a plausible change of serve.py:251: ThreadingTCPServer, whose loop
\* accepts while handlers are running
ServerIdleThreading == TRUE

\* TCPServer is not a ThreadingMixIn server: serve_forever calls
\* _handle_request_noblock, which returns only after the handler has
\* returned; the loop is back in select() only when no handler is running
ServerIdle == handling = {}

\* a client connects; the kernel queues the connection
Arrive(r) ==
  /\ nextId <= MaxRequests
  /\ Len(backlog) < MaxBacklog
  /\ backlog' = Append(backlog, Conn(nextId, r))
  /\ nextId' = nextId + 1
  /\ UNCHANGED <<handling, last, doneIds>>

\* get_request(): the loop accepts the oldest queued connection and
\* constructs its handler
Accept ==
  /\ ServerIdle
  /\ backlog # <<>>
  /\ handling' = handling \cup {Head(backlog)}
  /\ backlog' = Tail(backlog)
  /\ UNCHANGED <<last, doneIds, nextId>>

\* the handler runs to its end (for a generate request through
\* time.sleep(1.5), serve.py:58), the response is on the socket and
\* shutdown_request() closes the connection
Finish ==
  \E c \in handling :
    /\ handling' = handling \ {c}
    /\ last' = [id |-> c.id, req |-> c.req, resp |-> handle_one_request(c.req)]
    /\ doneIds' = Append(doneIds, c.id)
    /\ UNCHANGED <<backlog, nextId>>

(***************************************************************************)
(* The static asset server (start-frontend.py).  A path is a sequence of   *)
(* one-character strings; an entry of BUILD_DIR is a name and a kind.      *)
(***************************************************************************)
Entry(name, kind) == [name |-> name, kind |-> kind]

P_index == <<"i", "n", "d", "e", "x", ".", "h", "t", "m", "l">>
P_appjs == <<"a", "p", "p", ".", "j", "s">>
P_license == <<"L", "I", "C", "E", "N", "S", "E">>
P_static == <<"s", "t", "a", "t", "i", "c">>

\* what BUILD_DIR may contain
CandidateEntries ==
  { Entry(P_index, "file"), Entry(P_appjs, "file"), Entry(P_license, "file"),
    Entry(P_static, "dir") }

\* the request paths (self.path, the raw request target) that are enumerated
GetPaths ==
  { <<"/">>,
    <<"/">> \o P_index,
    <<"/">> \o P_appjs,
    <<"/">> \o P_license,
    <<"/">> \o P_license \o <<"?", "v", "=", "1">>,
    <<"/">> \o P_static,
    <<"/">> \o P_static \o <<"/">>,
    <<"/", "a", "b", "o", "u", "t">>,
    <<"/", "a", "b", "o", "u", "t", "?", "v", "=", "1", ".", "2">>,
    <<"/", "m", "i", "s", "s", ".", "c", "s", "s">> }

\* start-frontend.py:37: '/index.html'
IndexPath == <<"/">> \o P_index

\* str.lstrip('/')
RECURSIVE LStripSlash(_)
LStripSlash(p) ==
  IF p # <<>> /\ Head(p) = "/" THEN LStripSlash(Tail(p)) ELSE p

\* str.rstrip('/')
RECURSIVE RStripSlash(_)
RStripSlash(p) ==
  IF p # <<>> /\ p[Len(p)] = "/" THEN RStripSlash(SubSeq(p, 1, Len(p) - 1))
  ELSE p

\* '.' in self.path
HasDot(p) == \E i \in 1..Len(p) : p[i] = "."

\* the kind of the entry of BUILD_DIR named name, "none" if there is none
KindOf(fs, name) ==
  IF \E e \in fs : e.name = name
    THEN (CHOOSE e \in fs : e.name = name).kind
    ELSE "none"

\* os.path.exists(rel) with BUILD_DIR as working directory: the empty path
\* does not exist, a trailing '/' requires a directory
PathExists(fs, rel) ==
  /\ rel # <<>>
  /\ IF rel[Len(rel)] = "/"
       THEN RStripSlash(rel) = <<>> \/ KindOf(fs, RStripSlash(rel)) = "dir"
       ELSE KindOf(fs, rel) # "none"

\* urllib.parse.urlsplit(path).path: the target up to the first '?' or '#'
UrlPath(p) ==
  IF \E i \in 1..Len(p) : p[i] \in {"?", "#"}
    THEN SubSeq(p, 1, (CHOOSE i \in 1..Len(p) :
                         /\ p[i] \in {"?", "#"}
                         /\ \A j \in 1..(i - 1) : p[j] \notin {"?", "#"}) - 1)
    ELSE p

\* SimpleHTTPRequestHandler.translate_path for the one-component targets
\* that are enumerated: query dropped, surrounding '/' dropped
TranslatePath(p) == RStripSlash(LStripSlash(UrlPath(p)))

\* the answer to a GET for the (possibly rewritten) target p
GetResult(status, doc) == [status |-> status, doc |-> doc]

\* SimpleHTTPRequestHandler.do_GET / send_head, reached by super().do_GET()
\* at start-frontend.py:39: a directory target without trailing '/' is
\* redirected, a directory is answered with its index.html or a listing, a
\* file with its content, anything else with 404
SimpleGET(fs, p) ==
  LET target == UrlPath(p)
      name == TranslatePath(p)
      slash == target # <<>> /\ target[Len(target)] = "/"
      kind == IF name = <<>> THEN "dir" ELSE KindOf(fs, name)
  IN  IF kind = "dir"
        THEN IF ~slash THEN GetResult(301, <<>>)
             ELSE IF name = <<>> /\ KindOf(fs, P_index) = "file"
               THEN GetResult(200, P_index)
             ELSE GetResult(200, <<"*">>)
      ELSE IF kind = "file" /\ ~slash THEN GetResult(200, name)
      ELSE GetResult(404, <<>>)

\* start-frontend.py:36: the condition of the SPA rewrite
SpaFallback(fs, p) == ~PathExists(fs, LStripSlash(p)) /\ ~HasDot(p)

\* start-frontend.py:31-39: the target handed to the file-serving logic
RewrittenPath(fs, p) == IF SpaFallback(fs, p) THEN IndexPath ELSE p

\* a plausible slip in start-frontend.py:17: sys.exit(1) left out
AfterCheckNoExit(exists) == "chdir"

\* start-frontend.py:15-17: where the script continues after the check
AfterCheck(exists) == IF exists THEN "chdir" ELSE "exited"

StartDir == "start"
BuildDirName == "build"

InitAsset ==
  /\ pc = "check"
  /\ buildDir \in BOOLEAN
  /\ files \in (IF buildDir THEN SUBSET CandidateEntries ELSE {{}})
  /\ cwd = StartDir
  /\ bound = FALSE
  /\ exitStatus = -1
  /\ out = <<>>
  /\ served = [path |-> <<>>, target |-> <<>>, result |-> GetResult(0, <<>>)]

\* start-frontend.py:11-17
CheckBuildDir ==
  /\ pc = "check"
  /\ pc' = AfterCheck(buildDir)
  /\ out' = IF buildDir THEN out \o <<"starting", "exists: True">>
            ELSE out \o <<"starting", "exists: False",
                          "Build directory not found">>
  /\ exitStatus' = IF AfterCheck(buildDir) = "exited" THEN 1 ELSE exitStatus
  /\ UNCHANGED <<buildDir, files, cwd, bound, served>>

\* the environment removes BUILD_DIR after the check and before os.chdir
RemoveBuildDir ==
  /\ pc = "chdir"
  /\ buildDir
  /\ buildDir' = FALSE
  /\ files' = {}
  /\ UNCHANGED <<pc, cwd, bound, exitStatus, out, served>>

\* start-frontend.py:19-21: os.chdir raises FileNotFoundError, uncaught, when
\* the directory is gone; the interpreter then exits with status 1
ChangeDir ==
  /\ pc = "chdir"
  /\ IF buildDir
       THEN /\ cwd' = BuildDirName
            /\ pc' = "bind"
            /\ out' = Append(out, "Changed to directory")
            /\ UNCHANGED exitStatus
       ELSE /\ pc' = "exited"
            /\ exitStatus' = 1
            /\ UNCHANGED <<cwd, out>>
  /\ UNCHANGED <<buildDir, files, bound, served>>

\* start-frontend.py:45-51 and 54-56: TCPServer(("", PORT), ...) binds and
\* listens, or raises OSError (port in use), which is reported and exits 1
BindSocket ==
  /\ pc = "bind"
  /\ \E free \in BOOLEAN :
       IF free
         THEN /\ bound' = TRUE
              /\ pc' = "serving"
              /\ out' = Append(out, "running")
              /\ UNCHANGED exitStatus
         ELSE /\ pc' = "exited"
              /\ exitStatus' = 1
              /\ out' = Append(out, "Error starting server")
              /\ UNCHANGED bound
  /\ UNCHANGED <<buildDir, files, cwd, served>>

\* start-frontend.py:31-39: one GET handled by serve_forever
ServeGET(p) ==
  /\ pc = "serving"
  /\ served' = [path |-> p, target |-> RewrittenPath(files, p),
                result |-> SimpleGET(files, RewrittenPath(files, p))]
  /\ out' = out
  /\ UNCHANGED <<pc, buildDir, files, cwd, bound, exitStatus>>

\* start-frontend.py:52-53: Ctrl+C ends serve_forever, the script ends
Interrupt ==
  /\ pc = "serving"
  /\ pc' = "exited"
  /\ exitStatus' = 0
  /\ out' = Append(out, "Shutting down")
  /\ UNCHANGED <<buildDir, files, cwd, bound, served>>

(***************************************************************************)
(* Specifications.                                                         *)
(***************************************************************************)
\* the asset server script has not been started
AssetNotStarted ==
  /\ pc = "check"
  /\ buildDir = FALSE
  /\ files = {}
  /\ cwd = StartDir
  /\ bound = FALSE
  /\ exitStatus = -1
  /\ out = <<>>
  /\ served = [path |-> <<>>, target |-> <<>>, result |-> GetResult(0, <<>>)]

Init == InitApi /\ AssetNotStarted

\* one POST to /llm-content/generate on a fresh facade server
ArriveFirst(r) == nextId = 1 /\ Arrive(r)

NextGen ==
  \/ \E r \in GenReqs : ArriveFirst(r) /\ UNCHANGED assetVars
  \/ Accept /\ UNCHANGED assetVars
  \/ Finish /\ UNCHANGED assetVars

SpecGen == Init /\ [][NextGen]_vars

\* a sequence of connections to the facade server
NextServer ==
  \/ \E r \in ServerReqs : Arrive(r) /\ UNCHANGED assetVars
  \/ Accept /\ UNCHANGED assetVars
  \/ Finish /\ UNCHANGED assetVars

SpecServer == Init /\ [][NextServer]_vars

\* the asset server from its first statement on
NextAsset ==
  \/ CheckBuildDir /\ UNCHANGED apiVars
  \/ RemoveBuildDir /\ UNCHANGED apiVars
  \/ ChangeDir /\ UNCHANGED apiVars
  \/ BindSocket /\ UNCHANGED apiVars
  \/ \E p \in GetPaths : ServeGET(p) /\ UNCHANGED apiVars
  \/ Interrupt /\ UNCHANGED apiVars

InitAssetServer == InitApi /\ InitAsset

SpecAsset == InitAssetServer /\ [][NextAsset]_vars

Spec == SpecServer

(***************************************************************************)
(* Vocabulary of the properties.                                           *)
(***************************************************************************)
\* the connection answered last was a POST to /llm-content/generate
LastGenerate ==
  /\ last.id > 0
  /\ last.req.method = "POST"
  /\ last.req.path = GeneratePath

\* ... and it was answered with the 200 success envelope and nothing else
LastSuccess ==
  /\ LastGenerate
  /\ last.resp.statuses = <<200>>
  /\ last.resp.body.kind = "generated"
  /\ last.resp.body.success

LastField(k) == last.req.body.f[k]
LastTitles ==
  [k \in 1..Len(last.resp.body.sections) |-> last.resp.body.sections[k].title]

\* the number of whitespace-delimited tokens of s: the positions where a
\* non-whitespace character follows the start of the text or a whitespace
TokenCount(s) ==
  Cardinality({ i \in 1..Len(s) :
                  ~IsSpace(s[i]) /\ (i = 1 \/ IsSpace(s[i - 1])) })

\* needle occurs in hay as a contiguous run
Contains(hay, needle) ==
  \E i \in 0..(Len(hay) - Len(needle)) :
    \A j \in 1..Len(needle) : hay[i + j] = needle[j]

\* the value of a base64 character
B64Val(c) ==
  IF c \in 65..90 THEN c - 65
  ELSE IF c \in 97..122 THEN c - 71
  ELSE IF c \in 48..57 THEN c + 4
  ELSE IF c = 43 THEN 62 ELSE 63

IsB64Text(t) ==
  /\ Len(t) % 4 = 0
  /\ \A i \in 1..Len(t) :
       \/ t[i] \in (65..90) \cup (97..122) \cup (48..57) \cup {43, 47}
       \/ t[i] = 61 /\ i > Len(t) - 2 /\ \A j \in i..Len(t) : t[j] = 61

\* the bytes a base64 text stands for
B64Decode(t) ==
  LET pad == Cardinality({ i \in 1..Len(t) : t[i] = 61 })
      Val(i) == IF t[i] = 61 THEN 0 ELSE B64Val(t[i])
      Group(g) == Val(4 * g + 1) * 262144 + Val(4 * g + 2) * 4096
                    + Val(4 * g + 3) * 64 + Val(4 * g + 4)
      Byte(k) == LET g == (k - 1) \div 3
                     p == (k - 1) % 3
                 IN  IF p = 0 THEN Group(g) \div 65536
                     ELSE IF p = 1 THEN (Group(g) \div 256) % 256
                     ELSE Group(g) % 256
  IN  [k \in 1..(3 * (Len(t) \div 4) - pad) |-> Byte(k)]

\* the code point whose UTF-8 encoding starts at b[i]
Utf8At(b, i) ==
  IF b[i] < 128 THEN b[i]
  ELSE IF b[i] < 224 THEN (b[i] - 192) * 64 + (b[i + 1] - 128)
  ELSE IF b[i] < 240
    THEN (b[i] - 224) * 4096 + (b[i + 1] - 128) * 64 + (b[i + 2] - 128)
  ELSE (b[i] - 240) * 262144 + (b[i + 1] - 128) * 4096
         + (b[i + 2] - 128) * 64 + (b[i + 3] - 128)

\* the text that the bytes b[lo..hi] of a UTF-8 encoding stand for
RECURSIVE Utf8DecodeRange(_, _, _)
Utf8DecodeRange(b, lo, hi) ==
  IF lo > hi THEN <<>>
  ELSE IF lo = hi
    THEN IF b[lo] \in 128..191 THEN <<>> ELSE <<Utf8At(b, lo)>>
  ELSE LET mid == (lo + hi) \div 2
       IN  Utf8DecodeRange(b, lo, mid) \o Utf8DecodeRange(b, mid + 1, hi)

Utf8Decode(b) == Utf8DecodeRange(b, 1, Len(b))

HasPrefix(s, p) == Len(s) >= Len(p) /\ SubSeq(s, 1, Len(p)) = p

\* the text inside a base64 data URI of type image/svg+xml
DataUriPayload(uri) == SubSeq(uri, Len(DataUriText1) + 1, Len(uri))
DataUriDecodedText(uri) == Utf8Decode(B64Decode(DataUriPayload(uri)))

(***************************************************************************)
(* C1.  Sections of a successful generate response                         *)
(***************************************************************************)
\* C1: every successful generate response has, for a keyPoints array of
\* length N > 0, exactly N + 3 sections titled Introduction, Key Concepts,
\* 'Key Focus Area i: <point>' for i = 1..N in the order supplied, Conclusion;
\* for keyPoints empty or absent exactly the 5 sections Introduction, Key
\* Concepts, Implementation Strategy, Best Practices & Recommendations,
\* Conclusion.
C1_SectionsFollowKeyPoints ==
  LastSuccess =>
    LET kp == LastField("keyPoints")
        n == Len(kp.items)
    IN  /\ (kp.t = "arr" /\ n > 0) =>
             /\ Len(LastTitles) = n + 3
             /\ LastTitles[1] = IntroTitle
             /\ LastTitles[2] = ConceptsTitle
             /\ \A i \in 1..n :
                  LastTitles[i + 2] =
                    FocusTitleText1 \o <<48 + i>> \o FocusTitleText2
                      \o kp.items[i].s
             /\ LastTitles[n + 3] = ConclusionTitle
        /\ (kp.t = "absent" \/ (kp.t = "arr" /\ n = 0)) =>
             LastTitles = <<IntroTitle, ConceptsTitle, StrategyTitle,
                            PracticesTitle, ConclusionTitle>>

\* a success whose keyPoints array has two or more points
C1_Witness ==
  /\ LastSuccess
  /\ LastField("keyPoints").t = "arr"
  /\ Len(LastField("keyPoints").items) >= 2
  /\ Len(LastTitles) = Len(LastField("keyPoints").items) + 3

(***************************************************************************)
(* C8.  wordCount                                                          *)
(***************************************************************************)
\* C8: in every successful generate response wordCount is the sum, over the
\* sections returned, of the number of whitespace-delimited tokens of the
\* section's content.
C8_WordCountIsTokenSum ==
  LastSuccess =>
    last.resp.body.wordCount =
      SumSeq([k \in 1..Len(last.resp.body.sections) |->
                TokenCount(last.resp.body.sections[k].content)],
             Len(last.resp.body.sections))

\* a success whose topic contains whitespace and whose key points include
\* one with whitespace and an empty one
C8_Witness ==
  /\ LastSuccess
  /\ LastField("topic").t = "str"
  /\ \E i \in 1..Len(LastField("topic").s) : IsSpace(LastField("topic").s[i])
  /\ LastField("keyPoints").t = "arr"
  /\ \E i, j \in 1..Len(LastField("keyPoints").items) :
       /\ LastField("keyPoints").items[i].s = <<>>
       /\ \E k \in 1..Len(LastField("keyPoints").items[j].s) :
            IsSpace(LastField("keyPoints").items[j].s[k])
  /\ last.resp.body.wordCount > 0

(***************************************************************************)
(* C7.  imageGeneration                                                    *)
(***************************************************************************)
\* C7: a successful generate response has an imageGeneration object when
\* enableImageGeneration is true, its imageUrl then being a base64 data URI
\* whose decoded text contains the topic text of the request, and has none
\* when enableImageGeneration is false or absent.
C7_ImageIffEnabled ==
  LastSuccess =>
    /\ LastField("enableImageGeneration") = JTrue =>
         /\ last.resp.body.hasImageGeneration
         /\ HasPrefix(last.resp.body.imageUrl, DataUriText1)
         /\ IsB64Text(DataUriPayload(last.resp.body.imageUrl))
         /\ LastField("topic").t = "str" =>
              Contains(DataUriDecodedText(last.resp.body.imageUrl),
                       LastField("topic").s)
    /\ LastField("enableImageGeneration") \in {JFalse, Absent} =>
         ~last.resp.body.hasImageGeneration

\* a success with the image enabled and a topic that has a non-ASCII
\* character
C7_Witness ==
  /\ LastSuccess
  /\ LastField("enableImageGeneration") = JTrue
  /\ LastField("topic").t = "str"
  /\ \E i \in 1..Len(LastField("topic").s) : LastField("topic").s[i] > 127
  /\ last.resp.body.hasImageGeneration

(***************************************************************************)
(* C6.  Which JSON bodies the generate route accepts                       *)
(***************************************************************************)
\* 'Sample Topic: A Comprehensive Guide for B2B Success'
DefaultTitle ==
  <<83, 97, 109, 112, 108, 101, 32, 84, 111, 112, 105, 99, 58, 32, 65, 32,
    67, 111, 109, 112, 114, 101, 104, 101, 110, 115, 105, 118, 101, 32, 71,
    117, 105, 100, 101, 32, 102, 111, 114, 32, 66, 50, 66, 32, 83, 117, 99,
    99, 101, 115, 115>>

\* the request carried a Content-Length and a body that parses as JSON
LastWellFormed ==
  /\ LastGenerate
  /\ last.req.clen = "ok"
  /\ last.req.body.kind \in {"object", "other"}

\* C6 as stated: every well-formed JSON body posted to /llm-content/generate
\* is answered with the 200 success envelope, whatever its shape.
C6_AnyShapeAccepted == LastWellFormed => LastSuccess

\* v is absent or one of null, false, 0, "", [], {}
IsFalsy(v) ==
  v \in {Absent, JNull, JFalse, JNum(0), JStr(<<>>), JArr(<<>>),
         JObj(<<>>, <<>>)}

\* v is not a string with a lone surrogate
NoLoneSurrogate(v) ==
  v.t = "str" => \A i \in 1..Len(v.s) : v.s[i] \notin 55296..57343

\* the shapes the handler gets through
AcceptedShape(b) ==
  /\ b.kind = "object"
  /\ b.f["audience"].t \in {"absent", "str"}
  /\ \/ IsFalsy(b.f["keyPoints"])
     \/ b.f["keyPoints"].t \in {"arr", "str", "obj"}
  /\ ~IsFalsy(b.f["enableTextToSpeech"]) =>
       /\ b.f["voiceSettings"].t \in {"absent", "obj"}
       /\ b.f["enableTextToSpeech"].t # "deep"
  /\ NoLoneSurrogate(b.f["topic"])
  /\ ~IsFalsy(b.f["enableImageGeneration"]) =>
       /\ NoLoneSurrogate(b.f["imageStyle"])
       /\ b.f["enableImageGeneration"].t # "deep"
  /\ \A k \in {"contentType", "toneOfVoice", "llmTarget"} :
       b.f[k].t # "deep"

\* C6 amended: a well-formed JSON body is answered with the 200 success
\* envelope exactly when it is an object whose audience is a string or
\* absent, whose keyPoints is absent, falsy, an array, a string or an object,
\* whose voiceSettings is an object or absent when enableTextToSpeech is
\* true, whose topic and imageStyle are encodable as UTF-8, and whose echoed
\* fields are not nested beyond what the JSON encoder accepts; a missing
\* field takes its default.
C6_AcceptedShapes ==
  LastWellFormed =>
    /\ LastSuccess <=> AcceptedShape(last.req.body)
    /\ (LastSuccess /\ LastField("topic") = Absent
          /\ LastField("audience") = Absent) =>
         last.resp.body.title = DefaultTitle

\* a string as keyPoints and no topic nor audience, answered with success
C6_Witness ==
  /\ LastSuccess
  /\ LastWellFormed
  /\ LastField("keyPoints").t = "str"
  /\ LastField("topic") = Absent
  /\ LastField("audience") = Absent
  /\ last.resp.body.title = DefaultTitle

(***************************************************************************)
(* C10.  One status per generate request                                   *)
(***************************************************************************)
\* C10: every POST to /llm-content/generate is answered with exactly one
\* status line, 200 or 500, on every path through the handler.
C10_ExactlyOneStatus ==
  LastGenerate =>
    /\ Len(last.resp.statuses) = 1
    /\ last.resp.statuses[1] \in {200, 500}

(***************************************************************************)
(* C2.  Exceptions of the generate handler                                 *)
(***************************************************************************)
\* C2: whenever an exception is raised while a POST to /llm-content/generate
\* is handled, the response is status 500 with the error envelope, and the
\* server goes on to accept the connections that are waiting.
C2_ExceptionGives500 ==
  (LastGenerate /\ last.resp.raised # "none") =>
    /\ last.resp.statuses = <<500>>
    /\ last.resp.body.kind = "error"
    /\ ~last.resp.body.success
    /\ last.resp.body.error = last.resp.raised
    /\ ServerIdle

(***************************************************************************)
(* C3.  Unknown routes                                                     *)
(***************************************************************************)
\* the method/path combinations the claim lists as routes
ListedRoute(req) ==
  \/ req.method = "GET"
  \/ req.method = "OPTIONS"
  \/ /\ req.method = "POST"
     /\ req.path \in {"/llm-content/generate", "/llm-content/analyze",
                      "/llm-content/chunk"}

C3_Statuses ==
  (last.id > 0 /\ ~ListedRoute(last.req)) =>
    /\ last.req.method = "POST" =>
         /\ last.resp.statuses = <<404>>
         /\ last.resp.reason = "Endpoint not found"
    /\ last.req.method = "HEAD" =>
         \/ /\ last.req.path \in BuildFiles
            /\ last.resp.statuses = <<200>>
         \/ /\ last.req.path \notin BuildFiles
            /\ last.resp.statuses = <<404>>
            /\ last.resp.reason = "File not found"
    /\ last.req.method \notin {"POST", "HEAD"} =>
         /\ last.resp.statuses = <<501>>
         /\ last.resp.reason = "Unsupported method"

Answered(i) == \E k \in 1..Len(doneIds) : doneIds[k] = i
Waiting(i) == \E k \in 1..Len(backlog) : backlog[k].id = i
Running(i) == \E c \in handling : c.id = i

C4_OneAtATime ==
  /\ Cardinality(handling) <= 1
  /\ \A i \in 1..(nextId - 1) :
       /\ Waiting(i) \/ Running(i) \/ Answered(i)
       /\ ~(Waiting(i) /\ Running(i))
       /\ ~(Waiting(i) /\ Answered(i))
       /\ ~(Running(i) /\ Answered(i))
  /\ \A c \in handling :
       /\ \A k \in 1..Len(backlog) : backlog[k].id > c.id
       /\ \A k \in 1..Len(doneIds) : doneIds[k] < c.id
  /\ \A k \in 1..Len(doneIds) : doneIds[k] = k
  /\ \A k \in 1..Len(backlog) :
       \A j \in 1..Len(doneIds) : doneIds[j] < backlog[k].id

\* a generate request is being handled while later connections wait
C4_Witness ==
  /\ \E c \in handling :
       c.req.method = "POST" /\ c.req.path = GeneratePath
  /\ Len(backlog) >= 2

(***************************************************************************)
(* C5.  SPA fallback of the asset server                                   *)
(***************************************************************************)
\* the request target names a regular file of BUILD_DIR
ResolvesToFile(fs, p) ==
  LET target == UrlPath(p)
  IN  /\ KindOf(fs, TranslatePath(p)) = "file"
      /\ target[Len(target)] # "/"

\* C5: a GET whose path does not resolve to an existing file and has no '.'
\* is rewritten to the root index document and answered with it and 200; a
\* GET for an existing file, or for a path with a '.', reaches the file
\* serving logic with its path unchanged.
C5_SpaRewrite ==
  served.path # <<>> =>
    /\ (~ResolvesToFile(files, served.path) /\ ~HasDot(served.path)) =>
         /\ served.target = IndexPath
         /\ KindOf(files, P_index) = "file" =>
              served.result = GetResult(200, P_index)
    /\ (ResolvesToFile(files, served.path) \/ HasDot(served.path)) =>
         served.target = served.path

(***************************************************************************)
(* C9.  Startup of the asset server                                        *)
(***************************************************************************)
Printed(line) == \E i \in 1..Len(out) : out[i] = line

\* C9: if the build directory does not exist when it is checked, the script
\* reports it and exits with a non-zero status, the socket never bound and
\* the working directory never changed; the socket is bound only after the
\* check has found the directory.
C9_NoBindWithoutBuildDir ==
  /\ Printed("exists: False") =>
       /\ pc = "exited"
       /\ exitStatus > 0
       /\ Printed("Build directory not found")
       /\ ~bound
       /\ cwd = StartDir
  /\ bound => Printed("exists: True")
  /\ pc = "check" => ~bound /\ cwd = StartDir

\* the script has exited because the directory was missing
C9_Witness ==
  /\ pc = "exited"
  /\ Printed("exists: False")
  /\ exitStatus = 1
====
